---- MODULE Spec2Model ----
(***************************************************************************)
(* A model of vs/workbench/parts/outline/electron-browser/outlineModel.ts: *)
(* the outline tree (OutlineModel, OutlineGroup, OutlineElement), the      *)
(* fetch cycle that fills it from the document symbol providers, and the   *)
(* match and position queries.                                             *)
(*                                                                         *)
(* Objects live in `heap` (a sequence; an object's address is its index).  *)
(* A children map is a sequence of [key, ref] entries in insertion order,  *)
(* which is the order of a JavaScript for-in over string keys.             *)
(***************************************************************************)
EXTENDS Integers, Sequences, FiniteSets, TLC

VARIABLES
    heap,       \* the OutlineGroup and OutlineElement objects
    _groups,    \* OutlineModel._groups: ordered map id -> group
    children,   \* OutlineModel.children: [ref, map]; ref = "groups" when it is the _groups object
    cycle,      \* number of the fetch cycle that this.request belongs to
    requests,   \* state of the request promise of each cycle
    calls,      \* the provider calls issued so far, all cycles
    disposed,   \* 0, or the cycle that dispose() cancelled in flight (no refresh() since)
    late,       \* 0, or the cycle of the last provider call that finished after its cancellation
    ret         \* the last operation: [op, arg, result]

vars == <<heap, _groups, children, cycle, requests, calls, disposed, late, ret>>

-----------------------------------------------------------------------------
(* Bounds *)

MaxProviders == 2
MaxRefresh == 1
MaxSymbols == 1
MaxTreeSymbols == 3

-----------------------------------------------------------------------------
(* References *)

\* `undefined`, as a reference
undefined == 0

\* the OutlineModel instance (`this`), as a reference
Model == -1

\* OutlineModel.id
RootId == "root"

\* a falsy score (fuzzyScore found no match)
NoScore == <<>>

\* OutlineElement.score as constructed: [0, []]
DefaultScore == <<0, <<>>>>

-----------------------------------------------------------------------------
(* Ordered maps: { [id: string]: T } *)

EmptyMap == <<>>

Keys(m) == { m[i].key : i \in 1..Len(m) }

Has(m, k) == \E i \in 1..Len(m) : m[i].key = k

\* m[k], undefined when there is no such key
Get(m, k) ==
    IF Has(m, k) THEN m[CHOOSE i \in 1..Len(m) : m[i].key = k].ref ELSE undefined

\* m[k] = v: an existing key keeps its place, a new key goes last
Put(m, k, v) ==
    IF Has(m, k)
    THEN [i \in 1..Len(m) |-> IF m[i].key = k THEN [key |-> k, ref |-> v] ELSE m[i]]
    ELSE Append(m, [key |-> k, ref |-> v])

\* collections.size
size(m) == Len(m)

\* collections.first
first(m) == m[1].ref

\* the object that this.children refers to
Children == IF children.ref = "groups" THEN _groups ELSE children.map

-----------------------------------------------------------------------------
(* TreeElement *)

RECURSIVE findIdFrom(_, _, _, _)
findIdFrom(candidate, cid, cchildren, i) ==
    LET id == IF i = 0 THEN cid \o candidate ELSE cid \o candidate \o ToString(i)
    IN  IF Has(cchildren, id) THEN findIdFrom(candidate, cid, cchildren, i + 1) ELSE id

\* findId without the loop of lines 28-30: the first proposal is returned as it is
findId_NoDedupe(candidate, cid, cchildren) == cid \o candidate

\* TreeElement.findId(candidate, container), container given by its id and children
findId(candidate, cid, cchildren) == findIdFrom(candidate, cid, cchildren, 0)

-----------------------------------------------------------------------------
(* Objects *)

NoSymbol == [name |-> "", definingRange |-> <<>>, location |-> <<>>, children |-> <<>>]

\* new OutlineGroup(id, this, provider, index)
NewGroup(id, index, cyc) ==
    [kind |-> "group", id |-> id, parent |-> Model, providerIndex |-> index,
     symbol |-> NoSymbol, children |-> EmptyMap, score |-> NoScore, cycle |-> cyc]

\* new OutlineElement(id, parent, symbol)
NewElement(id, parent, info, cyc) ==
    [kind |-> "element", id |-> id, parent |-> parent, providerIndex |-> -1,
     symbol |-> info, children |-> EmptyMap, score |-> DefaultScore, cycle |-> cyc]

RECURSIVE _makeOutlineElement(_, _, _)
RECURSIVE _makeOutlineElements(_, _, _)

\* _makeOutlineElement without lines 179-183: the symbol's children are left out
_makeOutlineElement_Flat(h, info, container) ==
    LET id  == findId(info.name, h[container].id, h[container].children)
        res == Len(h) + 1
        h1  == Append(h, NewElement(id, container, info, h[container].cycle))
    IN  [h1 EXCEPT ![container].children = Put(@, h1[res].id, res)]

\* _makeOutlineElement storing the element under its name in line 184
_makeOutlineElement_KeyByName(h, info, container) ==
    LET id  == findId(info.name, h[container].id, h[container].children)
        res == Len(h) + 1
        h1  == Append(h, NewElement(id, container, info, h[container].cycle))
        h2  == _makeOutlineElements(h1, info.children, res)
    IN  [h2 EXCEPT ![container].children = Put(@, info.name, res)]

\* OutlineModel._makeOutlineElement(info, container): the heap afterwards
_makeOutlineElement(h, info, container) ==
    LET id  == findId(info.name, h[container].id, h[container].children)
        res == Len(h) + 1
        h1  == Append(h, NewElement(id, container, info, h[container].cycle))
        h2  == _makeOutlineElements(h1, info.children, res)
    IN  [h2 EXCEPT ![container].children = Put(@, h2[res].id, res)]

\* for (const info of infos) _makeOutlineElement(info, container)
_makeOutlineElements(h, infos, container) ==
    IF infos = <<>> THEN h
    ELSE _makeOutlineElements(_makeOutlineElement(h, Head(infos), container),
                              Tail(infos), container)

-----------------------------------------------------------------------------
(* What a provider can be asked to return *)

\* symbols that differ by name only
NameSymbols(names) ==
    { [name |-> n, definingRange |-> <<>>, location |-> <<0, 9>>] : n \in names }

\* symbols that differ by range only: one located by its location range, one whose
\* defining range differs from its location range
RangeSymbols ==
    { [name |-> "a", definingRange |-> <<>>, location |-> <<1, 4>>],
      [name |-> "a", definingRange |-> <<2, 3>>, location |-> <<0, 1>>] }

RECURSIVE ForestsOfSize(_, _)
RECURSIVE TreesOfSize(_, _)

\* every SymbolInformation of n nodes whose nodes are taken from S
TreesOfSize(S, n) ==
    IF n = 0 THEN {}
    ELSE { [name |-> s.name, definingRange |-> s.definingRange,
            location |-> s.location, children |-> f] :
           s \in S, f \in ForestsOfSize(S, n - 1) }

\* every SymbolInformation[] of n nodes in all
ForestsOfSize(S, n) ==
    IF n = 0 THEN {<<>>}
    ELSE UNION { { <<t>> \o r : t \in TreesOfSize(S, k), r \in ForestsOfSize(S, n - k) } :
                 k \in 1..n }

ForestsUpTo(S, n) == UNION { ForestsOfSize(S, k) : k \in 0..n }

\* the outcomes of provideDocumentSymbols: a list, nothing, or a failure
Outcomes(S, n) ==
    { [kind |-> "ok", symbols |-> f] : f \in ForestsUpTo(S, n) }
    \cup { [kind |-> "undefined", symbols |-> <<>>], [kind |-> "error", symbols |-> <<>>] }

\* what a call's result came to: "symbols", "nothing" or "error"
OutcomeOf(result) ==
    IF result.kind = "error" THEN "error"
    ELSE IF result.kind = "ok" /\ result.symbols # <<>> THEN "symbols"
    ELSE "nothing"

\* arrays.isFalsyOrEmpty
isFalsyOrEmpty(result) == result.kind # "ok" \/ result.symbols = <<>>

-----------------------------------------------------------------------------
(* OutlineModel: the fetch cycle.  The operators below take and return the  *)
(* model's state as a record m.                                             *)

St ==
    [heap |-> heap, groups |-> _groups, children |-> children,
     cycle |-> cycle, requests |-> requests, calls |-> calls]

\* the object m's children field refers to
ChildrenOf(m) == IF m.children.ref = "groups" THEN m.groups ELSE m.children.map

\* this.children[k] = v
PutChild(m, k, v) ==
    IF m.children.ref = "groups"
    THEN [m EXCEPT !.groups = Put(@, k, v)]
    ELSE [m EXCEPT !.children.map = Put(@, k, v)]

\* the calls of fetch cycle c
CallsOf(cs, c) == { i \in 1..Len(cs) : cs[i].cycle = c }

RECURSIVE Adopt(_, _, _)
\* lines 168-172: for (key in group.children) { child.parent = this; this.children[child.id] = child }
Adopt(m, group, k) ==
    IF k > Len(m.heap[group].children) THEN m
    ELSE LET child == m.heap[group].children[k].ref
             m1 == [m EXCEPT !.heap[child].parent = Model]
         IN  Adopt(PutChild(m1, m1.heap[child].id, child), group, k + 1)

\* JoinThen without the single-group rule
JoinThen_NoAdoption(m) == [m EXCEPT !.children = [ref |-> "groups", map |-> EmptyMap]]

\* the continuation of TPromise.join(promises), lines 160-173
JoinThen(m) ==
    IF size(m.groups) # 1
    THEN [m EXCEPT !.children = [ref |-> "groups", map |-> EmptyMap]]
    ELSE Adopt(m, first(m.groups), 1)

\* TPromise.join(promises).then(...): the continuation runs for cycle c once every
\* promise of c is fulfilled
Join(m, c) ==
    IF m.requests[c] = "pending" /\ \A i \in CallsOf(m.calls, c) : m.calls[i].state = "settled"
    THEN [JoinThen(m) EXCEPT !.requests[c] = "done"]
    ELSE m

\* lines 145-151 and 152-155: the group a provider call's result becomes
Convert(h, group, result) ==
    IF ~isFalsyOrEmpty(result) THEN _makeOutlineElements(h, result.symbols, group) ELSE h

\* Continuation without the error handler of lines 152-155: a failed call's group
\* is not recorded
Continuation_NoErrorHandler(m, i, result) ==
    LET call == m.calls[i]
        h1   == Convert(m.heap, call.group, result)
    IN  [m EXCEPT !.heap = h1,
                  !.groups = IF result.kind = "error" THEN @ ELSE Put(@, call.id, call.group),
                  !.calls[i].state = "settled",
                  !.calls[i].outcome = OutcomeOf(result)]

\* Continuation without the error handler, the rejection reaching the join: the
\* failed call never counts as fulfilled
Continuation_ErrorRejects(m, i, result) ==
    LET call == m.calls[i]
        h1   == Convert(m.heap, call.group, result)
    IN  IF result.kind = "error"
        THEN [m EXCEPT !.calls[i].state = "failed", !.calls[i].outcome = OutcomeOf(result)]
        ELSE [m EXCEPT !.heap = h1,
                       !.groups = Put(@, call.id, call.group),
                       !.calls[i].state = "settled",
                       !.calls[i].outcome = OutcomeOf(result)]

\* Continuation that stores the group in this.children as well as in this._groups
Continuation_WritesChildren(m, i, result) ==
    LET call == m.calls[i]
        h1   == Convert(m.heap, call.group, result)
    IN  PutChild([m EXCEPT !.heap = h1,
                           !.groups = Put(@, call.id, call.group),
                           !.calls[i].state = "settled",
                           !.calls[i].outcome = OutcomeOf(result)],
                 call.id, call.group)

\* lines 145-157: the provider call i settles with result and its continuations run
Continuation(m, i, result) ==
    LET call == m.calls[i]
        h1   == Convert(m.heap, call.group, result)
    IN  [m EXCEPT !.heap = h1,
                  !.groups = Put(@, call.id, call.group),
                  !.calls[i].state = "settled",
                  !.calls[i].outcome = OutcomeOf(result)]

\* a provider call of a live cycle settles
ProviderSettled(m, i, result) == Join(Continuation(m, i, result), m.calls[i].cycle)

RECURSIVE IssueCalls(_, _, _, _)
\* lines 140-143, for the providers index..n-1: the id and the group of each
IssueCalls(m, c, index, n) ==
    IF index >= n THEN m
    ELSE LET id    == findId("provider_" \o ToString(index), RootId, ChildrenOf(m))
             group == Len(m.heap) + 1
         IN  IssueCalls([m EXCEPT !.heap = Append(@, NewGroup(id, index, c)),
                                  !.calls = Append(@, [cycle |-> c, index |-> index, id |-> id,
                                                       group |-> group, state |-> "pending",
                                                       outcome |-> "pending"])],
                        c, index + 1, n)

\* OutlineModel._makeRequest() when the registry orders n providers
_makeRequest(m, n) ==
    LET c  == m.cycle + 1
        m1 == [m EXCEPT !.cycle = c, !.requests = Append(@, "pending")]
    IN  Join(IssueCalls(m1, c, 0, n), c)

\* TPromise.cancel() on this.request: the cycle's unsettled provider calls are
\* cancelled and none of the cycle's continuations runs afterwards
Cancel(m) ==
    IF m.requests[m.cycle] # "pending" THEN m
    ELSE [m EXCEPT !.requests[m.cycle] = "cancelled",
                   !.calls = [i \in 1..Len(@) |->
                                 IF @[i].cycle = m.cycle /\ @[i].state = "pending"
                                 THEN [@[i] EXCEPT !.state = "cancelled"] ELSE @[i]]]

\* dispose() that cancels nothing
dispose_NoCancel(m) == m

\* OutlineModel.dispose()
dispose(m) == Cancel(m)

\* refresh() without line 133: the cycle in flight is not cancelled
refresh_NoCancel(m, n) ==
    _makeRequest([m EXCEPT !.groups = EmptyMap,
                           !.children = [ref |-> "own", map |-> EmptyMap]], n)

\* refresh() with line 133 after line 136: the request cancelled is the new one
refresh_CancelsNew(m, n) ==
    Cancel(_makeRequest([m EXCEPT !.groups = EmptyMap,
                                  !.children = [ref |-> "own", map |-> EmptyMap]], n))

\* refresh() without line 135: children is not replaced
refresh_KeepChildren(m, n) ==
    _makeRequest([Cancel(m) EXCEPT !.groups = EmptyMap,
                                   !.children = [ref |-> "own", map |-> ChildrenOf(m)]], n)

\* refresh() without line 134: _groups is not replaced
refresh_KeepGroups(m, n) ==
    _makeRequest([Cancel(m) EXCEPT !.children = [ref |-> "own", map |-> EmptyMap]], n)

\* OutlineModel.refresh() when the registry orders n providers
refresh(m, n) ==
    LET m1 == Cancel(m)
        m2 == [m1 EXCEPT !.groups = EmptyMap,
                         !.children = [ref |-> "own", map |-> EmptyMap]]
    IN  _makeRequest(m2, n)

\* the state before the constructor's body runs (lines 116-121)
Fresh ==
    [heap |-> <<>>, groups |-> EmptyMap, children |-> [ref |-> "own", map |-> EmptyMap],
     cycle |-> 0, requests |-> <<>>, calls |-> <<>>]

\* new OutlineModel(textModel) when the registry orders n providers
constructor(n) == _makeRequest(Fresh, n)

-----------------------------------------------------------------------------
(* Objects nothing refers to any more are dropped and the rest renumbered:  *)
(* the program cannot observe them.  Of the provider calls, those of the    *)
(* current cycle are kept, those whose continuation can still run, and the  *)
(* cancelled ones of the cycle before; of a request older than that only    *)
(* that it is over.                                                         *)

Refs(m) == { m[i].ref : i \in 1..Len(m) }

RECURSIVE Sub(_, _)
\* the subtree of object a: a and everything below it
Sub(h, a) == {a} \cup UNION { Sub(h, r) : r \in Refs(h[a].children) }

\* what the model and the continuations still to run refer to
Roots(m) ==
    Refs(m.groups) \cup Refs(ChildrenOf(m))
    \cup { m.calls[i].group : i \in { j \in 1..Len(m.calls) : m.calls[j].state = "pending" } }

Live(m) == UNION { Sub(m.heap, a) : a \in Roots(m) }

\* the new address of object a
Renumber(m, a) ==
    LET K == Live(m)
    IN  IF a \in K THEN Cardinality({ b \in K : b <= a })
        ELSE IF a = Model THEN Model ELSE undefined

\* m with the objects of K alone
CollectLive(m, K) ==
    LET rank(a) == Cardinality({ b \in K : b <= a })
        at(j)  == CHOOSE a \in K : rank(a) = j
        ren(a) == IF a \in K THEN rank(a) ELSE IF a = Model THEN Model ELSE undefined
        renMap(mp) == [k \in 1..Len(mp) |-> [key |-> mp[k].key, ref |-> ren(mp[k].ref)]]
        keep(call) == \/ call.cycle = m.cycle
                      \/ call.state = "pending"
                      \/ call.state = "cancelled" /\ call.cycle = m.cycle - 1
        kept   == SelectSeq(m.calls, keep)
    IN  [heap |-> [j \in 1..Cardinality(K) |->
                      [m.heap[at(j)] EXCEPT !.parent = ren(@), !.children = renMap(@)]],
         groups |-> renMap(m.groups),
         children |-> [ref |-> m.children.ref, map |-> renMap(m.children.map)],
         cycle |-> m.cycle,
         requests |-> [c \in 1..Len(m.requests) |->
                         IF c < m.cycle - 1 /\ m.requests[c] # "pending"
                         THEN "over" ELSE m.requests[c]],
         calls |-> [i \in 1..Len(kept) |-> [kept[i] EXCEPT !.group = ren(@)]]]

Collect(m) == CHOOSE c \in { CollectLive(m, K) : K \in {Live(m)} } : TRUE

-----------------------------------------------------------------------------------------------------------------------------------------------------
(* The queries *)

RECURSIVE Matches(_, _, _, _)
\* pattern from its i-th character on is a subsequence of word from its j-th on
Matches(pattern, word, i, j) ==
    IF i > Len(pattern) THEN TRUE
    ELSE IF j > Len(word) THEN FALSE
    ELSE IF SubSeq(pattern, i, i) = SubSeq(word, j, j)
         THEN Matches(pattern, word, i + 1, j + 1)
         ELSE Matches(pattern, word, i, j + 1)

RECURSIVE Offsets(_, _, _, _)
\* the offsets in word of the leftmost such match
Offsets(pattern, word, i, j) ==
    IF i > Len(pattern) \/ j > Len(word) THEN <<>>
    ELSE IF SubSeq(pattern, i, i) = SubSeq(word, j, j)
         THEN <<j - 1>> \o Offsets(pattern, word, i + 1, j + 1)
         ELSE Offsets(pattern, word, i, j + 1)

\* filters.fuzzyScore(pattern, word): [value, offsets], or nothing when word does
\* not match; every character of word that pattern leaves out costs one
fuzzyScore(pattern, word) ==
    IF Matches(pattern, word, 1, 1)
    THEN <<2 * Len(pattern) - Len(word), Offsets(pattern, word, 1, 1)>>
    ELSE NoScore

\* Range.containsPosition(range, position)
containsPosition(range, position) == range[1] <= position /\ position <= range[2]

RECURSIVE _updateMatches(_, _, _, _)
RECURSIVE _updateMatchesChildren(_, _, _, _, _)

\* _updateMatches with >= for > in line 84: an equal score displaces the best so far
_updateMatches_NonStrict(h, pattern, item, topMatch) ==
    LET s    == fuzzyScore(pattern, h[item].symbol.name)
        h1   == [h EXCEPT ![item].score = s]
        top1 == IF s # NoScore /\ (topMatch = undefined \/ s[1] >= h1[topMatch].score[1])
                THEN item ELSE topMatch
    IN  _updateMatchesChildren(h1, pattern, item, 1, top1)

\* OutlineGroup._updateMatches(pattern, item, topMatch): the heap and topMatch afterwards
_updateMatches(h, pattern, item, topMatch) ==
    LET s    == fuzzyScore(pattern, h[item].symbol.name)
        h1   == [h EXCEPT ![item].score = s]
        top1 == IF s # NoScore /\ (topMatch = undefined \/ s[1] > h1[topMatch].score[1])
                THEN item ELSE topMatch
    IN  _updateMatchesChildren(h1, pattern, item, 1, top1)

\* lines 87-94 without lines 90-93: a parent is not marked for its children
_updateMatchesChildren_NoMark(h, pattern, item, k, topMatch) ==
    IF k > Len(h[item].children) THEN [h |-> h, top |-> topMatch]
    ELSE LET r == _updateMatches(h, pattern, h[item].children[k].ref, topMatch)
         IN  _updateMatchesChildren(r.h, pattern, item, k + 1, r.top)

\* lines 87-94, from the k-th child of item on
_updateMatchesChildren(h, pattern, item, k, topMatch) ==
    IF k > Len(h[item].children) THEN [h |-> h, top |-> topMatch]
    ELSE LET child == h[item].children[k].ref
             r     == _updateMatches(h, pattern, child, topMatch)
             h2    == IF r.h[item].score = NoScore /\ r.h[child].score # NoScore
                      THEN [r.h EXCEPT ![item].score = <<0, <<>>>>]
                      ELSE r.h
         IN  _updateMatchesChildren(h2, pattern, item, k + 1, r.top)

RECURSIVE GroupUpdateMatches(_, _, _, _, _)
\* OutlineGroup.updateMatches(pattern, topMatch), from the k-th child of group on
GroupUpdateMatches(h, pattern, group, k, topMatch) ==
    IF k > Len(h[group].children) THEN [h |-> h, top |-> topMatch]
    ELSE LET r == _updateMatches(h, pattern, h[group].children[k].ref, topMatch)
         IN  GroupUpdateMatches(r.h, pattern, group, k + 1, r.top)

RECURSIVE ModelUpdateMatches(_, _, _, _, _)
\* lines 189-191, from the k-th group of groups on
ModelUpdateMatches(h, groups, pattern, k, topMatch) ==
    IF k > Len(groups) THEN [h |-> h, top |-> topMatch]
    ELSE LET r == GroupUpdateMatches(h, pattern, groups[k].ref, 1, topMatch)
         IN  ModelUpdateMatches(r.h, groups, pattern, k + 1, r.top)

\* OutlineModel.updateMatches(pattern): the heap afterwards and the element returned
updateMatches(m, pattern) == ModelUpdateMatches(m.heap, m.groups, pattern, 1, undefined)

\* item.symbol.definingRange || item.symbol.location.range
RangeOf(symbol) ==
    IF symbol.definingRange # <<>> THEN symbol.definingRange ELSE symbol.location

RECURSIVE _getItemEnclosingPosition_Outer(_, _, _, _)
\* _getItemEnclosingPosition that returns the first child containing the position
\* without looking below it
_getItemEnclosingPosition_Outer(h, position, chs, k) ==
    IF k > Len(chs) THEN undefined
    ELSE IF containsPosition(RangeOf(h[chs[k].ref].symbol), position) THEN chs[k].ref
    ELSE _getItemEnclosingPosition_Outer(h, position, chs, k + 1)

RECURSIVE _getItemEnclosingPosition(_, _, _, _)
\* OutlineGroup._getItemEnclosingPosition(position, chs), from the k-th entry of chs on
_getItemEnclosingPosition(h, position, chs, k) ==
    IF k > Len(chs) THEN undefined
    ELSE LET item == chs[k].ref
         IN  IF ~containsPosition(RangeOf(h[item].symbol), position)
             THEN _getItemEnclosingPosition(h, position, chs, k + 1)
             ELSE LET inner == _getItemEnclosingPosition(h, position, h[item].children, 1)
                  IN  IF inner # undefined THEN inner ELSE item

\* OutlineGroup.getItemEnclosingPosition(position)
GroupGetItemEnclosingPosition(h, group, position) ==
    _getItemEnclosingPosition(h, position, h[group].children, 1)

RECURSIVE ModelGetItemEnclosingPosition(_, _, _, _)

\* lines 196-202 without the return of line 199: a later group's result replaces
\* an earlier one
ModelGetItemEnclosingPosition_LastHit(h, groups, position, k) ==
    IF k > Len(groups) THEN undefined
    ELSE LET result == GroupGetItemEnclosingPosition(h, groups[k].ref, position)
             later  == ModelGetItemEnclosingPosition(h, groups, position, k + 1)
         IN  IF later # undefined THEN later ELSE result

\* lines 196-202, from the k-th group of groups on
ModelGetItemEnclosingPosition(h, groups, position, k) ==
    IF k > Len(groups) THEN undefined
    ELSE LET result == GroupGetItemEnclosingPosition(h, groups[k].ref, position)
         IN  IF result # undefined THEN result
             ELSE ModelGetItemEnclosingPosition(h, groups, position, k + 1)

\* OutlineModel.getItemEnclosingPosition(position)
getItemEnclosingPosition(m, position) ==
    ModelGetItemEnclosingPosition(m.heap, m.groups, position, 1)

RECURSIVE getElementById(_, _, _, _)
RECURSIVE getElementByIdIn(_, _, _, _)

\* lines 38-43 returning whatever the first child's search returns
getElementByIdIn_FirstChildOnly(h, id, chs, k) ==
    IF k > Len(chs) THEN undefined
    ELSE getElementById(h, id, chs[k].ref, h[chs[k].ref].children)

\* lines 38-43, from the k-th entry of chs on
getElementByIdIn(h, id, chs, k) ==
    IF k > Len(chs) THEN undefined
    ELSE LET candidate == getElementById(h, id, chs[k].ref, h[chs[k].ref].children)
         IN  IF candidate # undefined THEN candidate
             ELSE getElementByIdIn(h, id, chs, k + 1)

\* TreeElement.getElementById(id, element), element given as a reference and its
\* children
getElementById(h, id, element, chs) ==
    IF (IF element = Model THEN RootId ELSE h[element].id) = id THEN element
    ELSE getElementByIdIn(h, id, chs, 1)

\* OutlineModel.getItemById(id)
getItemById(m, id) == getElementById(m.heap, id, Model, ChildrenOf(m))

-----
(* Actions *)

\* the next state is m (after collection), reached by operation op
Becomes(m, op, arg, result) ==
    \E c \in {Collect(m)} :
        /\ heap' = c.heap
        /\ _groups' = c.groups
        /\ children' = c.children
        /\ cycle' = c.cycle
        /\ requests' = c.requests
        /\ calls' = c.calls
        /\ ret' = [op |-> op, arg |-> arg, result |-> Renumber(m, result)]

NoArg == <<>>

\* the elements the fetch cycle c has created
SymbolCount(h, c) ==
    Cardinality({ a \in 1..Len(h) : h[a].kind = "element" /\ h[a].cycle = c })

\* the model as constructed, the registry ordering one of counts providers
InitWith(counts) ==
    \E n \in counts :
        \E m \in {Collect(constructor(n))} :
            /\ heap = m.heap
            /\ _groups = m.groups
            /\ children = m.children
            /\ cycle = m.cycle
            /\ requests = m.requests
            /\ calls = m.calls
            /\ disposed = 0
            /\ late = 0
            /\ ret = [op |-> "constructor", arg |-> NoArg, result |-> undefined]

Init == InitWith(0..MaxProviders)

Refresh ==
    /\ cycle <= MaxRefresh
    /\ \E n \in 0..MaxProviders : Becomes(refresh(St, n), "refresh", NoArg, undefined)
    /\ disposed' = 0
    /\ UNCHANGED late

Dispose ==
    /\ Becomes(dispose(St), "dispose", NoArg, undefined)
    /\ disposed' = IF requests[cycle] = "pending" THEN cycle ELSE disposed
    /\ UNCHANGED late

\* a provider call whose promise is live settles: with a list of symbols, with
\* nothing, or with a failure; outcomes[k] are the outcomes of at most k symbols,
\* and one cycle creates at most budget elements
Settle(outcomes, budget) ==
    /\ \E i \in 1..Len(calls) :
          /\ calls[i].state = "pending"
          /\ \E r \in outcomes[budget - SymbolCount(heap, calls[i].cycle)] :
                Becomes(ProviderSettled(St, i, r), "settle", NoArg, undefined)
    /\ UNCHANGED <<disposed, late>>

\* the provider of a cancelled call finishes: its promise is cancelled already,
\* so no continuation runs and the result r is dropped
Discard(m, i, r) == [m EXCEPT !.calls[i].state = "late"]

LateSettle(outcomes) ==
    /\ \E i \in 1..Len(calls) :
          /\ calls[i].state = "cancelled"
          /\ late' = calls[i].cycle
          /\ \E r \in outcomes[0] : Becomes(Discard(St, i, r), "late", NoArg, undefined)
    /\ UNCHANGED disposed

AsyncSymbols == NameSymbols({"a"})

AsyncOutcomes == [k \in 0..MaxSymbols |-> Outcomes(AsyncSymbols, k)]

SettleAsync == Settle(AsyncOutcomes, MaxSymbols)

LateSettleAsync == LateSettle(AsyncOutcomes)

Next == Refresh \/ Dispose \/ SettleAsync \/ LateSettleAsync

Spec == Init /\ [][Next]_vars

\* SettleAsync, told from the other steps by what it leaves in ret
SettleStep ==
    /\ ret' = [op |-> "settle", arg |-> NoArg, result |-> undefined]
    /\ SettleAsync

\* a provider call is awaited: SettleAsync is enabled exactly then, a call being
\* free to return nothing or to fail
Awaited == \E i \in 1..Len(calls) : calls[i].state = "pending"

\* every provider call that is awaited settles in the end: WF_vars(SettleAsync),
\* with ENABLED <<SettleAsync>>_vars written as Awaited
LiveSpec == Spec /\ ([]<>(~Awaited) \/ []<><<SettleStep>>_vars)

-----------------------------------------------------------------------------
(* The match query, on trees whose symbols differ by name *)

Patterns == {"", "a", "aa"}

MatchSymbols == NameSymbols({"a", "aa"})

MatchOutcomes == [k \in 0..MaxTreeSymbols |-> Outcomes(MatchSymbols, k)]

SettleMatch == Settle(MatchOutcomes, MaxTreeSymbols)

UpdateMatches ==
    /\ \E pattern \in Patterns :
          LET r == updateMatches(St, pattern)
          IN  Becomes([St EXCEPT !.heap = r.h], "updateMatches", pattern, r.top)
    /\ UNCHANGED <<disposed, late>>

NextMatch == SettleMatch \/ UpdateMatches

\* the queries are asked of models of one group and of two
TreeProviders == {1, 2}

InitTree == InitWith(TreeProviders)

SpecMatch == InitTree /\ [][NextMatch]_vars

-----------------------------------------------------------------------------
(* The position query, on trees whose symbols differ by range *)

Positions == {0, 1, 2}

PosOutcomes == [k \in 0..MaxTreeSymbols |-> Outcomes(RangeSymbols, k)]

SettlePos == Settle(PosOutcomes, MaxTreeSymbols)

GetItemEnclosingPosition ==
    /\ \E position \in Positions :
          Becomes(St, "getItemEnclosingPosition", position,
                  getItemEnclosingPosition(St, position))
    /\ UNCHANGED <<disposed, late>>

\* a caller asks one group of the model
AskGroup ==
    /\ \E position \in Positions, k \in 1..Len(_groups) :
          Becomes(St, "group.getItemEnclosingPosition", <<_groups[k].key, position>>,
                  GroupGetItemEnclosingPosition(heap, _groups[k].ref, position))
    /\ UNCHANGED <<disposed, late>>

NextPos == SettlePos \/ GetItemEnclosingPosition \/ AskGroup

SpecPos == InitTree /\ [][NextPos]_vars

-----------------------------------------------------------------------------
(* Ids: findId and getItemById, on trees whose symbols have colliding names *)

\* a call that leaves the model as it is and returns result
Probe(op, arg, result) ==
    /\ ret' = [op |-> op, arg |-> arg, result |-> result]
    /\ UNCHANGED <<heap, _groups, children, cycle, requests, calls, disposed, late>>

IdNames == {"a", "a1"}

IdSymbols == NameSymbols(IdNames)

\* the symbols one fetch cycle may receive in all
IdBudget == MaxSymbols + 1

IdOutcomes == [k \in 0..IdBudget |-> Outcomes(IdSymbols, k)]

SettleId == Settle(IdOutcomes, IdBudget)

\* findId(candidate, container) for a container of the model, and again after
\* line 184 has stored a child under the id returned
FindId ==
    \E container \in {Model} \cup (1..Len(heap)), candidate \in IdNames :
        LET cid   == IF container = Model THEN RootId ELSE heap[container].id
            chs   == IF container = Model THEN Children ELSE heap[container].children
            id    == findId(candidate, cid, chs)
            again == findId(candidate, cid, Put(chs, id, Len(heap) + 1))
        IN  Probe("findId", <<container, candidate>>, <<id, again>>)

\* the ids asked for: those of the objects there are, the root's, and one of no object
LookupIds == { heap[a].id : a \in 1..Len(heap) } \cup {RootId, "rootprovider_9"}

GetItemById ==
    \E id \in LookupIds : Probe("getItemById", id, getItemById(St, id))

NextId == SettleId \/ FindId \/ GetItemById

SpecId == InitTree /\ [][NextId]_vars

-----------------------------------------------------------------------------
(* One provider, symbols named Foo, Bar and Baz *)

ScenarioNames == {"Foo", "Bar", "Baz"}

ScenarioSymbols == NameSymbols(ScenarioNames)

ScenarioOutcomes == [k \in 0..MaxTreeSymbols |-> Outcomes(ScenarioSymbols, k)]

SettleScenario == Settle(ScenarioOutcomes, MaxTreeSymbols)

NextScenario == SettleScenario

\* the registry orders a single provider
InitScenario == InitWith({1})

SpecScenario == InitScenario /\ [][NextScenario]_vars

-----------------------------------------------------------------------------
(* What the claims speak of *)

\* the provider calls of the current fetch cycle
Current == CallsOf(calls, cycle)

\* the current fetch cycle has completed: the continuation of the join has run
Completed == requests[cycle] = "done"

\* the objects below the entries of map, the entries' own objects included
Below(h, map) == UNION { Sub(h, r) : r \in Refs(map) }

\* the elements of all groups of _groups
GroupElements == { a \in Below(heap, _groups) : heap[a].kind = "element" }

\* the groups and elements of the tree under the root
TreeNodes == Below(heap, Children)

RECURSIVE TreeOf(_, _)
\* the tree under map as a value: what is there, whatever the addresses
TreeOf(h, map) ==
    [k \in 1..Len(map) |->
        [key |-> map[k].key, id |-> h[map[k].ref].id, kind |-> h[map[k].ref].kind,
         symbol |-> h[map[k].ref].symbol,
         parent |-> IF h[map[k].ref].parent = Model THEN RootId
                    ELSE IF h[map[k].ref].parent = undefined THEN ""
                    ELSE h[h[map[k].ref].parent].id,
         children |-> TreeOf(h, h[map[k].ref].children)]]

RECURSIVE PreOrder(_, _, _)
\* the elements under map from its k-th entry on, a parent before its children
PreOrder(h, map, k) ==
    IF k > Len(map) THEN <<>>
    ELSE <<map[k].ref>> \o PreOrder(h, h[map[k].ref].children, 1) \o PreOrder(h, map, k + 1)

RECURSIVE GroupsPreOrder(_, _, _)
\* the elements of the groups from the k-th on, in the order a query visits them
GroupsPreOrder(h, groups, k) ==
    IF k > Len(groups) THEN <<>>
    ELSE PreOrder(h, h[groups[k].ref].children, 1) \o GroupsPreOrder(h, groups, k + 1)

\* e is a proper ancestor of a
Ancestor(e, a) == e # a /\ a \in Sub(heap, e)

-----------------------------------------------------------------------------
(* C1 *)

\* C1: once a cycle started by refresh() has completed, every group and element in
\* the model's children was built by that cycle, none by an earlier one, also when
\* a provider call of the cancelled earlier cycle finished after the refresh.
C1_NoEarlierResultInChildren ==
    (cycle > 1 /\ Completed) => \A a \in TreeNodes : heap[a].cycle = cycle

\* the earlier cycle was cancelled in flight, one of its provider calls finished
\* afterwards, and the new cycle has completed with symbols to show
C1_Witness ==
    /\ cycle > 1
    /\ requests[cycle - 1] = "cancelled"
    /\ late = cycle - 1
    /\ Completed
    /\ \E a \in TreeNodes : heap[a].kind = "element"

-----------------------------------------------------------------------------
(* C2 *)

\* C2: when a cycle over N providers has completed, for N = 1 the children are the
\* sole group's top-level elements, each with the model as its parent; for N # 1
\* children is _groups and has N entries, one per provider, keyed by group id.
C2_MergeRule ==
    Completed =>
        LET N == Cardinality(Current)
        IN  IF N = 1
            THEN /\ size(_groups) = 1
                 /\ children.ref = "own"
                 /\ Children = heap[first(_groups)].children
                 /\ \A a \in Refs(Children) :
                       heap[a].kind = "element" /\ heap[a].parent = Model
            ELSE /\ children.ref = "groups"
                 /\ Len(Children) = N
                 /\ Keys(Children) = { calls[i].id : i \in Current }
                 /\ \A i \in Current : Get(Children, calls[i].id) = calls[i].group
                 /\ \A k \in 1..Len(Children) :
                       /\ heap[Children[k].ref].kind = "group"
                       /\ heap[Children[k].ref].id = Children[k].key

\* a completed cycle over one provider that returned symbols
C2_Witness ==
    /\ Completed
    /\ Cardinality(Current) = 1
    /\ Len(Children) > 0

-----------------------------------------------------------------------------
(* C3 *)

\* C3: no two distinct nodes of the tree under the model's children (groups and
\* elements at any depth) have the same id, and none has the id of the root.
C3_IdsUnique ==
    /\ \A a \in TreeNodes : heap[a].id # RootId
    /\ \A a, b \in TreeNodes : a # b => heap[a].id # heap[b].id

-----------------------------------------------------------------------------
(* C4 *)

\* C4: every group in _groups, and every node under children, was created by the
\* fetch cycle that the most recent refresh() (or the constructor) started.
C4_OnlyCurrentCycleWrites ==
    /\ \A g \in Refs(_groups) : heap[g].cycle = cycle
    /\ \A a \in TreeNodes : heap[a].cycle = cycle

\* after a refresh() that cancelled a cycle in flight, a call of the cancelled
\* cycle has finished and the new cycle has recorded a group but is not complete
C4_Witness ==
    /\ cycle > 1
    /\ late = cycle - 1
    /\ requests[cycle] = "pending"
    /\ _groups # EmptyMap

-----------------------------------------------------------------------------
(* C5 *)

\* C5: a settled provider call has its group in _groups under the group's id; when
\* the call failed or returned nothing the group has no children; and once every
\* call has settled, failed ones included, the cycle has completed with all groups.
C5_FailureYieldsEmptyGroup ==
    /\ \A i \in Current :
          calls[i].state = "settled" =>
              /\ Has(_groups, calls[i].id)
              /\ Get(_groups, calls[i].id) = calls[i].group
              /\ calls[i].outcome \in {"nothing", "error"} => heap[calls[i].group].children = EmptyMap
    /\ (\A i \in Current : calls[i].state = "settled") =>
          Completed /\ size(_groups) = Cardinality(Current)

\* a completed cycle in which one provider failed and another returned symbols
C5_Witness ==
    /\ Completed
    /\ \E i, j \in Current :
          /\ calls[i].outcome = "error"
          /\ calls[j].outcome = "symbols"
          /\ heap[calls[j].group].children # EmptyMap

-----------------------------------------------------------------------------
(* C6 *)

\* C6: when every provider call settles in the end, a fetch cycle that is in flight
\* leads to its completion, with one group per provider in _groups and children in
\* its final shape, unless refresh() or dispose() is called before.
C6_CycleCompletes ==
    \A c \in 1..(MaxRefresh + 1) :
        (cycle = c /\ requests[c] = "pending")
            ~> \/ cycle > c
               \/ /\ cycle = c
                  /\ \/ requests[c] = "cancelled"
                     \/ /\ Completed
                        /\ size(_groups) = Cardinality(Current)
                        /\ C2_MergeRule

\* a cycle over as many providers as the model allows has completed, one of its
\* calls having failed
C6_Witness ==
    /\ Completed
    /\ Cardinality(Current) = MaxProviders
    /\ size(_groups) = MaxProviders
    /\ \E i \in Current : calls[i].outcome = "error"

-----------------------------------------------------------------------------
(* C7 *)

\* C7: dispose() changes neither _groups nor children nor the trees under them, and
\* after a dispose() that cancelled a cycle in flight no step changes them either,
\* until refresh() is called.
C7_DisposeFreezesTree ==
    [][ ((disposed # 0 /\ disposed' # 0) \/ ret'.op = "dispose") =>
            /\ TreeOf(heap', _groups') = TreeOf(heap, _groups)
            /\ children'.ref = children.ref
            /\ TreeOf(heap', Children') = TreeOf(heap, Children) ]_vars

\* dispose() cancelled a cycle that had recorded a group already, and a provider
\* call of that cycle has finished since
C7_Witness ==
    /\ disposed # 0
    /\ late = disposed
    /\ requests[cycle] = "cancelled"
    /\ _groups # EmptyMap
    /\ ret.op = "late"

-----------------------------------------------------------------------------
(* C8 *)

\* the elements of the groups whose own name matches pattern
Matching(pattern) ==
    { e \in GroupElements : fuzzyScore(pattern, heap[e].symbol.name) # NoScore }

\* C8: after updateMatches(p) on a tree in which exactly one element matches p, a
\* leaf below another element: the call returned the leaf, every ancestor element
\* of the leaf has the score [0, []], and every other element has no score.
C8_MatchPropagation ==
    ret.op = "updateMatches" =>
        \A leaf \in Matching(ret.arg) :
            ( /\ Matching(ret.arg) = {leaf}
              /\ heap[leaf].children = EmptyMap
              /\ \E e \in GroupElements : Ancestor(e, leaf) ) =>
                /\ ret.result = leaf
                /\ heap[leaf].score # NoScore
                /\ \A e \in GroupElements \ {leaf} :
                      IF Ancestor(e, leaf)
                      THEN heap[e].score = <<0, <<>>>>
                      ELSE heap[e].score = NoScore

\* updateMatches has returned the only matching element, a leaf with an ancestor,
\* and the tree has an element that is neither
C8_Witness ==
    /\ ret.op = "updateMatches"
    /\ \E leaf \in Matching(ret.arg) :
          /\ Matching(ret.arg) = {leaf}
          /\ heap[leaf].children = EmptyMap
          /\ ret.result = leaf
          /\ \E e \in GroupElements : Ancestor(e, leaf)
          /\ \E e \in GroupElements : e # leaf /\ ~Ancestor(e, leaf)

-----------------------------------------------------------------------------
(* C9 *)

\* C9: updateMatches(pattern) returns nothing when no element's name matches;
\* otherwise the first element, in the order the groups and their elements are
\* visited, among the matching elements of the greatest match value.
C9_BestMatchFirst ==
    ret.op = "updateMatches" =>
        LET seq    == GroupsPreOrder(heap, _groups, 1)
            val(i) == fuzzyScore(ret.arg, heap[seq[i]].symbol.name)
            I      == { i \in 1..Len(seq) : val(i) # NoScore }
        IN  IF I = {} THEN ret.result = undefined
            ELSE \E i \in I :
                    /\ \A j \in I : val(j)[1] <= val(i)[1]
                    /\ \A j \in I : j < i => val(j)[1] < val(i)[1]
                    /\ ret.result = seq[i]

\* updateMatches has returned an element of the first group although an element
\* of the second group matches as well as it does
C9_Witness ==
    /\ ret.op = "updateMatches"
    /\ Len(_groups) = 2
    /\ ret.result \in Sub(heap, _groups[1].ref)
    /\ \E e \in Sub(heap, _groups[2].ref) :
          /\ heap[e].kind = "element"
          /\ fuzzyScore(ret.arg, heap[e].symbol.name)
                = fuzzyScore(ret.arg, heap[ret.result].symbol.name)

-----------------------------------------------------------------------------
(* C10 *)

\* the range of element e contains position p
Encloses(e, p) == containsPosition(RangeOf(heap[e].symbol), p)

\* the object whose children map holds a
Holder(a) == CHOOSE x \in 1..Len(heap) : a \in Refs(heap[x].children)

\* the elements of group g that contain p as all elements above them do
Nested(g, p) ==
    { e \in Sub(heap, g) \ {g} :
        Encloses(e, p) /\ \A a \in Sub(heap, g) \ {g} : Ancestor(a, e) => Encloses(a, p) }

\* the number of elements of group g above e
Depth(g, e) == Cardinality({ a \in Sub(heap, g) \ {g} : Ancestor(a, e) })

\* e is the first entry of its holder's children, in iteration order, containing p
FirstEnclosing(e, p) ==
    LET chs == heap[Holder(e)].children
    IN  \E k \in 1..Len(chs) :
           /\ chs[k].ref = e
           /\ Encloses(e, p)
           /\ \A j \in 1..(k - 1) : ~Encloses(chs[j].ref, p)

-----------------------------------------------------------------------------
(* C11 *)

\* C11: the id findId(s, C) returns is no key of C.children; it is C.id + s when
\* that is no key, and otherwise C.id + s + i for the least i >= 1 that gives no
\* key; with a child stored under it, findId(s, C) returns another id.
C11_FindIdUnused ==
    ret.op = "findId" =>
        LET container == ret.arg[1]
            candidate == ret.arg[2]
            id        == ret.result[1]
            again     == ret.result[2]
            cid       == IF container = Model THEN RootId ELSE heap[container].id
            chs       == IF container = Model THEN Children ELSE heap[container].children
        IN  /\ ~Has(chs, id)
            /\ again # id
            /\ \/ id = cid \o candidate
               \/ /\ Has(chs, cid \o candidate)
                  /\ \E i \in 1..(Len(chs) + 1) :
                        /\ id = cid \o candidate \o ToString(i)
                        /\ \A j \in 1..(i - 1) : Has(chs, cid \o candidate \o ToString(j))

\* findId went past the suffix 1: the name and the name with 1 were both taken
C11_Witness ==
    /\ ret.op = "findId"
    /\ ret.arg[1] # Model
    /\ ret.result[1] = heap[ret.arg[1]].id \o ret.arg[2] \o "2"
    /\ ret.result[2] = heap[ret.arg[1]].id \o ret.arg[2] \o "3"

-----------------------------------------------------------------------------
(* C12 *)

\* the id of node a, the root included
IdOfNode(a) == IF a = Model THEN RootId ELSE heap[a].id

\* the root and the nodes reachable from it, a parent before its children
RootPreOrder == <<Model>> \o PreOrder(heap, Children, 1)

-----------------------------------------------------------------------------
(* C13 *)

\* every entry of map has the id of its object as its key
KeyedById(map) == \A k \in 1..Len(map) : map[k].key = heap[map[k].ref].id

\* C13: in the children of the model, in _groups, and in the children of every
\* group and element, each entry's key is the id of the child stored under it.
C13_KeyIsChildId ==
    /\ KeyedById(Children)
    /\ KeyedById(_groups)
    /\ \A a \in 1..Len(heap) : KeyedById(heap[a].children)

\* the model has adopted the elements of its only group, one of which has a child
C13_Witness ==
    /\ Completed
    /\ children.ref = "own"
    /\ Len(_groups) = 1
    /\ Len(Children) >= 2
    /\ \E a \in Refs(Children) : heap[a].parent = Model /\ heap[a].children # EmptyMap

-----------------------------------------------------------------------------
(* C14 *)

\* the symbol named name with the children infos
Named(name, infos) ==
    [name |-> name, definingRange |-> <<>>, location |-> <<0, 9>>, children |-> infos]

\* what the provider of group g returned: the symbols of g's children, in order
Returned(g) == [k \in 1..Len(heap[g].children) |-> heap[heap[g].children[k].ref].symbol]

\* the only provider has returned Foo and Bar, Bar with the child Baz, and the
\* cycle has completed
FooBarBaz ==
    /\ Completed
    /\ Len(_groups) = 1
    /\ Returned(_groups[1].ref) = <<Named("Foo", <<>>), Named("Bar", <<Named("Baz", <<>>)>>)>>

\* C14 as stated: with one provider returning Foo and Bar, Bar with the child Baz,
\* the model's children after the cycle are two entries keyed by the model's id
\* followed by "Foo" and by "Bar", and Bar's children are one entry, for Baz.
C14_KeysRootedAtModel ==
    FooBarBaz =>
        /\ Len(Children) = 2
        /\ Keys(Children) = {RootId \o "Foo", RootId \o "Bar"}
        /\ \A k \in 1..Len(Children) :
              heap[Children[k].ref].symbol.name = "Bar" =>
                 /\ Len(heap[Children[k].ref].children) = 1
                 /\ heap[heap[Children[k].ref].children[1].ref].symbol.name = "Baz"

\* C14 amended: with one provider returning Foo and Bar, Bar with the child Baz,
\* the model's children after the cycle are two entries keyed by the id of the
\* provider's group, "rootprovider_0", followed by "Foo" and by "Bar", and Bar's
\* children are one entry, for Baz, keyed by Bar's id followed by "Baz".
C14_KeysRootedAtGroup ==
    FooBarBaz =>
        /\ Len(Children) = 2
        /\ Keys(Children) = {RootId \o "provider_0" \o "Foo", RootId \o "provider_0" \o "Bar"}
        /\ \A k \in 1..Len(Children) :
              heap[Children[k].ref].symbol.name = "Bar" =>
                 /\ Len(heap[Children[k].ref].children) = 1
                 /\ heap[heap[Children[k].ref].children[1].ref].symbol.name = "Baz"
                 /\ heap[Children[k].ref].children[1].key
                       = RootId \o "provider_0" \o "Bar" \o "Baz"

\* the cycle of the scenario has completed and the model shows Foo and Bar
C14_Witness ==
    /\ FooBarBaz
    /\ children.ref = "own"
    /\ \E a, b \in Refs(Children) :
          heap[a].symbol.name = "Foo" /\ heap[b].symbol.name = "Bar"

-----------------------------------------------------------------------------
(* C15 *)

\* the model shows nothing: children is its own, empty map
ShowsNothing == children.ref = "own" /\ children.map = EmptyMap

\* C15: while the fetch cycle is pending the model's children is empty; and
\* children changes only in a refresh() or in the step in which the last pending
\* provider call of the cycle settles and the cycle completes.
C15_ChildrenDecidedAtOnce ==
    /\ (requests[cycle] = "pending" => ShowsNothing)
    /\ [][ /\ requests'[cycle'] = "pending" => ShowsNothing'
           /\ (children'.ref # children.ref
                  \/ TreeOf(heap', Children') # TreeOf(heap, Children)) =>
                 \/ ret'.op = "refresh"
                 \/ /\ ret'.op = "settle"
                    /\ cycle' = cycle
                    /\ requests[cycle] = "pending"
                    /\ requests'[cycle] = "done"
                    /\ \A i \in CallsOf(calls', cycle) : calls'[i].state = "settled" ]_vars

\* one provider call of the cycle has settled with symbols and its group is in
\* _groups, another is pending, and the model shows nothing
C15_Witness ==
    /\ requests[cycle] = "pending"
    /\ ShowsNothing
    /\ \E i, j \in Current :
          /\ calls[i].state = "settled"
          /\ calls[i].outcome = "symbols"
          /\ Has(_groups, calls[i].id)
          /\ calls[j].state = "pending"

-----------------------------------------------------------------------------
(* C16 *)

\* C16: after dispose() no provider call is left pending, and after refresh() only
\* calls of the new cycle are: every unsettled call of the cycle in flight was
\* cancelled.  A provider call is pending only while the request of its cycle is;
\* a cancelled request never completes, and the end of a cancelled call changes
\* neither _groups nor children.
C16_CancelReachesEveryCall ==
    /\ \A i \in 1..Len(calls) :
          calls[i].state = "pending" =>
             /\ requests[calls[i].cycle] = "pending"
             /\ calls[i].cycle = cycle
             /\ ret.op # "dispose"
    /\ [][ /\ \A c \in 1..Len(requests) :
                 requests[c] = "cancelled" => requests'[c] \in {"cancelled", "over"}
           /\ \A i \in 1..Len(calls') :
                 calls'[i].state = "pending" =>
                    /\ requests'[calls'[i].cycle] = "pending"
                    /\ calls'[i].cycle = cycle'
                    /\ ret'.op # "dispose"
           /\ ret'.op = "late" =>
                 /\ TreeOf(heap', _groups') = TreeOf(heap, _groups)
                 /\ children'.ref = children.ref
                 /\ TreeOf(heap', Children') = TreeOf(heap, Children) ]_vars

\* a refresh() has just cancelled a cycle of which one provider call had not
\* settled
C16_Witness ==
    /\ ret.op = "refresh"
    /\ cycle > 1
    /\ requests[cycle - 1] = "cancelled"
    /\ \E i \in 1..Len(calls) : calls[i].cycle = cycle - 1 /\ calls[i].state = "cancelled"
    /\ \E j \in Current : calls[j].state = "pending"

-----------------------------------------------------------------------------
(* C17 *)

\* what the k-th group of _groups answers for position p
GroupAnswer(k, p) == GroupGetItemEnclosingPosition(heap, _groups[k].ref, p)

\* C17: the model's getItemEnclosingPosition(p) returns nothing exactly when no
\* group of _groups answers p with an element, and otherwise the answer of the
\* first group, in the order of _groups, that answers with one.
C17_FirstGroupWithHit ==
    ret.op = "getItemEnclosingPosition" =>
        LET H == { k \in 1..Len(_groups) : GroupAnswer(k, ret.arg) # undefined }
        IN  /\ (ret.result = undefined) <=> (H = {})
            /\ \A k \in H : (\A j \in H : k <= j) => ret.result = GroupAnswer(k, ret.arg)

\* the first group's element was returned although the second group has an
\* element for the position too, a more deeply nested one
C17_Witness ==
    /\ ret.op = "getItemEnclosingPosition"
    /\ Len(_groups) = 2
    /\ ret.result # undefined
    /\ ret.result = GroupAnswer(1, ret.arg)
    /\ GroupAnswer(2, ret.arg) # undefined
    /\ Depth(_groups[2].ref, GroupAnswer(2, ret.arg)) > Depth(_groups[1].ref, ret.result)

-----------------------------------------------------------------------------
(* C18 *)

\* C18: an element that the model's updateMatches or getItemEnclosingPosition has
\* returned is what getItemById returns for the element's id.
C18_ReturnedIsReachable ==
    (ret.op \in {"updateMatches", "getItemEnclosingPosition"} /\ ret.result # undefined) =>
        getItemById(St, heap[ret.result].id) = ret.result

\* C18 for the states in which the fetch cycle has completed
C18_ReturnedIsReachableOnceComplete ==
    (Completed /\ ret.op \in {"updateMatches", "getItemEnclosingPosition"}
        /\ ret.result # undefined) =>
        getItemById(St, heap[ret.result].id) = ret.result

-----------------------------------------------------------------------------
(* C19 *)

\* the entries of groups in the order of their providers: _groups as it is when
\* the provider calls settle in the order of the providers
InProviderOrder(groups) ==
    LET index(k) == heap[groups[k].ref].providerIndex
        rank(k)  == 1 + Cardinality({ j \in 1..Len(groups) : index(j) < index(k) })
    IN  [r \in 1..Len(groups) |-> groups[CHOOSE k \in 1..Len(groups) : rank(k) = r]]

\* C19: once the cycle has completed, what getItemEnclosingPosition(position) and
\* updateMatches(pattern) return is what they return when the provider calls have
\* settled in the order of the providers: the order of settling does not matter.
C19_SettleOrderIrrelevant ==
    Completed =>
        /\ ret.op = "getItemEnclosingPosition" =>
              ret.result
                 = ModelGetItemEnclosingPosition(heap, InProviderOrder(_groups), ret.arg, 1)
        /\ ret.op = "updateMatches" =>
              ret.result
                 = ModelUpdateMatches(heap, InProviderOrder(_groups), ret.arg, 1, undefined).top

-----------------------------------------------------------------------------
(* A refresh() of a model whose fetch cycle has completed.  What the model   *)
(* showed before the refresh, and what each provider had returned, is kept   *)
(* in ret.arg for the cycle that the refresh starts.                         *)

RECURSIVE SetTreeOf(_, _)
\* the tree under map as a set: the id, the symbol and the children of each node
SetTreeOf(h, map) ==
    { [id |-> h[map[k].ref].id, symbol |-> h[map[k].ref].symbol,
       children |-> SetTreeOf(h, h[map[k].ref].children)] : k \in 1..Len(map) }

\* what the model shows and what the provider of each index has returned
Shown ==
    [n       |-> Cardinality(Current),
     results |-> [x \in { calls[i].index : i \in Current } |->
                     Returned(calls[CHOOSE i \in Current : calls[i].index = x].group)],
     tree    |-> SetTreeOf(heap, Children),
     ordered |-> TreeOf(heap, Children)]

\* a provider call settles; ret.arg is carried over
SettleAgain ==
    /\ \E i \in 1..Len(calls) :
          /\ calls[i].state = "pending"
          /\ \E r \in IdOutcomes[IdBudget - SymbolCount(heap, calls[i].cycle)] :
                \E c \in {Collect(ProviderSettled(St, i, r))} :
                    /\ heap' = c.heap
                    /\ _groups' = c.groups
                    /\ children' = c.children
                    /\ cycle' = c.cycle
                    /\ requests' = c.requests
                    /\ calls' = c.calls
                    /\ ret' = [op |-> "settle", arg |-> ret.arg, result |-> undefined]
    /\ UNCHANGED <<disposed, late>>

\* refresh() once the first cycle has completed
RefreshAgain ==
    /\ cycle = 1
    /\ Completed
    /\ \E n \in TreeProviders :
          \E c \in {Collect(refresh(St, n))} :
              /\ heap' = c.heap
              /\ _groups' = c.groups
              /\ children' = c.children
              /\ cycle' = c.cycle
              /\ requests' = c.requests
              /\ calls' = c.calls
              /\ ret' = [op |-> "refresh", arg |-> Shown, result |-> undefined]
    /\ disposed' = 0
    /\ UNCHANGED late

NextAgain == SettleAgain \/ RefreshAgain

SpecAgain == InitTree /\ [][NextAgain]_vars

-----------------------------------------------------------------------------
(* C20 *)

\* the cycle started by the refresh() has completed, over as many providers as
\* before, each of which has returned the symbols it returned before
SameAgain ==
    /\ cycle = 2
    /\ Completed
    /\ Cardinality(Current) = ret.arg.n
    /\ \A i \in Current : Returned(calls[i].group) = ret.arg.results[calls[i].index]

\* C20: when refresh() is called on a model whose cycle has completed and every
\* provider returns the symbols it returned before, then once the new cycle has
\* completed the tree under the root has the same ids, with the same symbol and
\* the same children at each, as before the refresh.
C20_RefreshRebuildsSameTree ==
    SameAgain => SetTreeOf(heap, Children) = ret.arg.tree

\* two providers have returned what they returned before, symbols among it, but
\* have settled in the other order
C20_Witness ==
    /\ SameAgain
    /\ Len(_groups) = 2
    /\ \E a \in TreeNodes : heap[a].kind = "element"
    /\ TreeOf(heap, Children) # ret.arg.ordered

====
